---- MODULE Spec2Model ----
(***************************************************************************)
(* The simulation core of the snake game in src/01-snake/main.go: the      *)
(* per-frame handler Game.Update with handleKeyboard, detectCollision and  *)
(* setFood, started from the state NewGame builds.                         *)
(*                                                                         *)
(* A Point is the pair <<x, y>>.  The snake is a sequence of Points, head  *)
(* first (snake[1] is g.snake[0]).  One step of the model is one call of   *)
(* Game.Update, i.e. one real-time frame.                                  *)
(***************************************************************************)
EXTENDS Integers, Sequences, FiniteSets, TLC

VARIABLES
    snake,       \* g.snake: the segments, head first
    food,        \* g.food
    direction,   \* g.direction
    color,       \* g.color, uint8: the timing accumulator
    score,       \* g.score
    state,       \* g.state
    crashLen,    \* history: snake length when the phase last became CRASHED
    crashTicks,  \* history: logical ticks taken since then
    idle         \* history: frames taken since the last logical tick

vars == <<snake, food, direction, color, score, state, crashLen, crashTicks, idle>>

(***************************************************************************)
(* Program constants.                                                      *)
(***************************************************************************)
MaxUint8 == 255
speed == MaxUint8 \div 10

RUNNING == 0
CRASHED == 1
CRASHING == 2

(***************************************************************************)
(* Bounds of the model.  The source draws a 320 x 240 screen, a board of   *)
(* 40 x 30 cells; Update reads the board's size only through setFood, and  *)
(* NewGame through the start cell, so the model plays on a 16 x 16 screen, *)
(* a board of 2 x 2 cells.  The code lets the head leave the board and the *)
(* snake grow without limit: the model follows the head up to Margin cells *)
(* past the board's left edge, and the snake up to MaxLen segments.  The   *)
(* history counters stop counting at MaxIdle frames and at MaxLen + 2      *)
(* ticks, which Update never lets them reach.                              *)
(***************************************************************************)
screenWidth == 16
screenHeight == 16
Margin == 1
MaxLen == 3
MaxIdle == 12

boxSize == 8
boardWidth == screenWidth \div boxSize
boardHeight == screenHeight \div boxSize

(***************************************************************************)
(* Points.                                                                 *)
(***************************************************************************)
Point(x, y) == <<x, y>>

Add(p, d) == <<p[1] + d[1], p[2] + d[2]>>

\* The cells of the board: what setFood can draw.
BoardCells == (0 .. boardWidth - 1) \X (0 .. boardHeight - 1)

\* The cells the model follows the head to.
InReach(p) ==
    /\ p[1] \in (0 - Margin) .. (boardWidth - 1)
    /\ p[2] \in 0 .. (boardHeight - 1)

(***************************************************************************)
(* handleKeyboard: the arrow keys held down on this frame decide the       *)
(* direction, the first case of the switch that matches winning; with no   *)
(* arrow key down the direction stays.                                     *)
(***************************************************************************)
ArrowKeys == {"ArrowUp", "ArrowRight", "ArrowDown", "ArrowLeft"}

\* Variant: the keys are read only on the frames that take a logical tick.
handleKeyboard_AtTicks(d, pressed) ==
    IF color + speed >= MaxUint8
       THEN CASE "ArrowUp" \in pressed    -> Point(0, -1)
              [] "ArrowRight" \in pressed -> Point(1, 0)
              [] "ArrowDown" \in pressed  -> Point(0, 1)
              [] "ArrowLeft" \in pressed  -> Point(-1, 0)
              [] OTHER                    -> d
       ELSE d

handleKeyboard(d, pressed) ==
    CASE "ArrowUp" \in pressed    -> Point(0, -1)
      [] "ArrowRight" \in pressed -> Point(1, 0)
      [] "ArrowDown" \in pressed  -> Point(0, 1)
      [] "ArrowLeft" \in pressed  -> Point(-1, 0)
      [] OTHER                    -> d

(***************************************************************************)
(* detectCollision(g.snake[0]): some segment after the head is on the      *)
(* head's cell.                                                            *)
(***************************************************************************)
\* Variant: the loop starts at the head itself.
detectCollision_FromHead(s) ==
    \E i \in 1 .. Len(s) : s[i] = s[1]

\* Variant: the loop stops one short and never looks at the last segment.
detectCollision_SkipTail(s) ==
    \E i \in 2 .. Len(s) - 1 : s[i] = s[1]

\* Variant: leaving the board counts as a collision too.
detectCollision_Walls(s) ==
    \/ \E i \in 2 .. Len(s) : s[i] = s[1]
    \/ s[1] \notin (0 .. boardWidth - 1) \X (0 .. boardHeight - 1)

detectCollision(s) ==
    \E i \in 2 .. Len(s) : s[i] = s[1]

(***************************************************************************)
(* The tick test of Update and the accumulator's step.                     *)
(***************************************************************************)
\* Variant: the sum is taken in uint8, without the conversion to uint16.
TickFires_Uint8(c) == (c + speed) % (MaxUint8 + 1) >= MaxUint8

\* Variant: a tick only when the addition overflows the byte.
TickFires_Overflow(c) == c + speed > MaxUint8

TickFires(c) == c + speed >= MaxUint8

NextColor(c) == (c + speed) % (MaxUint8 + 1)

(***************************************************************************)
(* The loop over slices.Backward(g.snake): from the tail to the head each  *)
(* segment takes the cell of the one before it, which has not moved yet;   *)
(* the head, visited last, moves by the direction.                         *)
(***************************************************************************)
\* Variant: the loop runs from the head to the tail, so every segment
\* copies a predecessor that has already moved.
MoveSnake_Forward(s, d) ==
    [i \in 1 .. Len(s) |-> Add(s[1], d)]

MoveSnake(s, d) ==
    [i \in 1 .. Len(s) |-> IF i = 1 THEN Add(s[1], d) ELSE s[i - 1]]

\* The head has reached the food after its move.
GrabsFood(s, f) == s[1] = f

\* setFood: any cell of the board, the head's and the body's included.
setFood == BoardCells

\* Variant: the retraction eats the snake from the head.
CrashingSnake_FromHead(s) == IF Len(s) > 1 THEN SubSeq(s, 2, Len(s)) ELSE s

\* Variant: the last segment is dropped without the length test.
CrashingSnake_Unguarded(s) == SubSeq(s, 1, Len(s) - 1)

\* The CRASHING case: drop the last segment, or with one segment left go
\* back to RUNNING.
CrashingSnake(s) == IF Len(s) > 1 THEN SubSeq(s, 1, Len(s) - 1) ELSE s

\* Variant: the else branch is missing and play never resumes.
CrashingState_Stuck(s) == CRASHING

\* Variant: the tick that drops the second segment also resumes play.
CrashingState_Eager(s) == IF Len(s) > 2 THEN CRASHING ELSE RUNNING

CrashingState(s) == IF Len(s) > 1 THEN CRASHING ELSE RUNNING

\* A history counter's next value: one more, up to its limit.
CountUp(n, limit) == IF n < limit THEN n + 1 ELSE n

(***************************************************************************)
(* NewGame.                                                                *)
(***************************************************************************)
Init ==
    /\ snake = << Point(boardHeight \div 2, boardWidth \div 2) >>
    /\ direction = Point(1, 0)
    /\ food \in setFood
    /\ color = 0
    /\ score = 0
    /\ state = RUNNING
    /\ crashLen = 0
    /\ crashTicks = 0
    /\ idle = 0

(***************************************************************************)
(* Game.Update, by the case it takes.  d is the direction handleKeyboard   *)
(* has just stored.                                                        *)
(***************************************************************************)
\* Variant: the score reset of the CRASHED case sits outside the tick test.
RenderFrame_ResetsScore ==
    /\ ~TickFires(color)
    /\ score' = IF state = CRASHED THEN 0 ELSE score
    /\ UNCHANGED <<snake, food, state, crashLen, crashTicks>>

\* The accumulator is below the threshold: nothing but it (and the
\* direction) changes.
RenderFrame ==
    /\ ~TickFires(color)
    /\ UNCHANGED <<snake, food, score, state, crashLen, crashTicks>>

\* Variant: the new segment copies the tail after the tail has moved.
Grow_MovedTail(s, moved, f) ==
    IF GrabsFood(moved, f) THEN Append(moved, moved[Len(moved)]) ELSE moved

\* On the food the snake gets a new last segment, a copy of the tail made
\* before the move (s is the snake before the move, moved after it).
Grow(s, moved, f) ==
    IF GrabsFood(moved, f) THEN Append(moved, s[Len(s)]) ELSE moved

\* Variant: the score is reset on the tick that detects the collision.
RunningTick_ResetsScore(d) ==
    /\ TickFires(color)
    /\ state = RUNNING
    /\ LET moved == MoveSnake(snake, d)
           grown == Grow(snake, moved, food)
       IN  /\ InReach(moved[1])
           /\ Len(grown) <= MaxLen
           /\ snake' = grown
           /\ food' \in (IF GrabsFood(moved, food) THEN setFood ELSE {food})
           /\ IF detectCollision(grown)
                 THEN state' = CRASHED /\ crashLen' = Len(grown) /\ score' = 0
                 ELSE /\ state' = state
                      /\ crashLen' = 0
                      /\ score' = IF GrabsFood(moved, food) THEN score + 1 ELSE score
           /\ crashTicks' = 0

RunningTick(d) ==
    /\ TickFires(color)
    /\ state = RUNNING
    /\ LET moved == MoveSnake(snake, d)
           grown == Grow(snake, moved, food)
       IN  /\ InReach(moved[1])
           /\ Len(grown) <= MaxLen
           /\ snake' = grown
           /\ IF GrabsFood(moved, food)
                 THEN food' \in setFood /\ score' = score + 1
                 ELSE food' = food /\ score' = score
           /\ IF detectCollision(grown)
                 THEN state' = CRASHED /\ crashLen' = Len(grown)
                 ELSE state' = state /\ crashLen' = 0
           /\ crashTicks' = 0

\* Variant: the retraction starts on the tick that resets the score.
CrashedTick_Shrinks ==
    /\ TickFires(color)
    /\ state = CRASHED
    /\ score' = 0
    /\ state' = CRASHING
    /\ snake' = SubSeq(snake, 1, Len(snake) - 1)
    /\ crashTicks' = CountUp(crashTicks, MaxLen + 2)
    /\ UNCHANGED <<food, crashLen>>

\* Variant: the score reset is missing.
CrashedTick_KeepsScore ==
    /\ TickFires(color)
    /\ state = CRASHED
    /\ state' = CRASHING
    /\ crashTicks' = CountUp(crashTicks, MaxLen + 2)
    /\ UNCHANGED <<snake, food, score, crashLen>>

\* Variant: play resumes at once, without the retraction.
CrashedTick_Resume ==
    /\ TickFires(color)
    /\ state = CRASHED
    /\ score' = 0
    /\ state' = RUNNING
    /\ crashTicks' = CountUp(crashTicks, MaxLen + 2)
    /\ UNCHANGED <<snake, food, crashLen>>

CrashedTick ==
    /\ TickFires(color)
    /\ state = CRASHED
    /\ score' = 0
    /\ state' = CRASHING
    /\ crashTicks' = CountUp(crashTicks, MaxLen + 2)
    /\ UNCHANGED <<snake, food, crashLen>>

CrashingTick ==
    /\ TickFires(color)
    /\ state = CRASHING
    /\ snake' = CrashingSnake(snake)
    /\ state' = CrashingState(snake)
    /\ crashTicks' = CountUp(crashTicks, MaxLen + 2)
    /\ UNCHANGED <<food, score, crashLen>>

Update(pressed) ==
    /\ direction' = handleKeyboard(direction, pressed)
    /\ \/ RenderFrame
       \/ RunningTick(direction')
       \/ CrashedTick
       \/ CrashingTick
    /\ color' = NextColor(color)
    /\ idle' = IF TickFires(color) THEN 0 ELSE CountUp(idle, MaxIdle)

\* What ebiten.IsKeyPressed can report on a frame: no arrow key down, one
\* down, or all four down (the switch then takes its first case).
KeyStates == {{}} \cup {{k} : k \in ArrowKeys} \cup {ArrowKeys}

Next == \E pressed \in KeyStates : Update(pressed)

Spec == Init /\ [][Next]_vars

\* ebiten.RunGame calls Update once per frame for as long as the game runs.
FairSpec == Init /\ [][Next]_vars /\ WF_vars(Next)

(***************************************************************************)
(* Vocabulary of the properties.  They read the accumulator, the board and *)
(* the segments themselves, not the operators Update is built from.        *)
(***************************************************************************)
\* This frame takes the switch on g.state: a logical tick.
OnTick == color + speed >= MaxUint8

\* This frame has changed the simulation: it has taken a logical tick.
TickTaken == <<snake, food, score, state>>' # <<snake, food, score, state>>

\* the cell of NewGame's snake
StartCell == <<boardHeight \div 2, boardWidth \div 2>>

\* the cell the head is on after this frame's move
MovedHead == <<snake[1][1] + direction'[1], snake[1][2] + direction'[2]>>

(***************************************************************************)
(* C1 as stated: N logical ticks after the phase became CRASHED with N     *)
(* segments, the phase is RUNNING again with one segment and score 0.      *)
(***************************************************************************)
C1_RunningAfterNTicks ==
    (crashLen > 0 /\ crashTicks = crashLen) =>
        (state = RUNNING /\ Len(snake) = 1 /\ score = 0)

(***************************************************************************)
(* C1, amended: the crash cycle takes N + 1 logical ticks.  After the      *)
(* phase became CRASHED with N segments it is CRASHED until the first      *)
(* tick, CRASHING with score 0 and N - k + 1 segments after tick k for k   *)
(* in 1 .. N (so a snake of 2 segments in CRASHING first shrinks to 1 and  *)
(* stays CRASHING), and RUNNING with 1 segment and score 0 after tick      *)
(* N + 1.                                                                  *)
(***************************************************************************)
C1_CrashCycle ==
    crashLen > 0 =>
        /\ crashTicks \in 0 .. crashLen + 1
        /\ crashTicks = 0 => state = CRASHED /\ Len(snake) = crashLen
        /\ crashTicks \in 1 .. crashLen =>
              /\ state = CRASHING
              /\ Len(snake) = crashLen - crashTicks + 1
              /\ score = 0
        /\ crashTicks = crashLen + 1 =>
              /\ state = RUNNING
              /\ Len(snake) = 1
              /\ score = 0

C1_Witness ==
    state = RUNNING /\ crashLen = 3 /\ crashTicks = 4 /\ Len(snake) = 1

(***************************************************************************)
(* C2: a logical tick in RUNNING ends in CRASHED exactly when the moved    *)
(* head is on the cell of a later segment of the snake as it is after the  *)
(* tick (a segment appended on this tick included), wherever the head is;  *)
(* and no other frame takes the phase to CRASHED.                          *)
(***************************************************************************)
C2_CrashedIffSelfCollision ==
    [][ /\ (OnTick /\ state = RUNNING) =>
              /\ snake'[1] = MovedHead
              /\ state' = CRASHED <=>
                    \E i \in 2 .. Len(snake') : snake'[i] = MovedHead
        /\ (state' = CRASHED /\ state # CRASHED) =>
              (OnTick /\ state = RUNNING) ]_vars

\* The phase has just become CRASHED, the head on the cell of the last of
\* three segments.
C2_Witness ==
    /\ state = CRASHED
    /\ crashTicks = 0
    /\ Len(snake) = 3
    /\ snake[3] = snake[1]

(***************************************************************************)
(* C3: on a logical tick in RUNNING whose moved head is on the food, the   *)
(* snake is one segment longer, the score one higher and the new last      *)
(* segment is where the tail was before the tick; on one whose moved head  *)
(* is not on the food, length, score and food stay.                        *)
(***************************************************************************)
C3_Growth ==
    [][ (OnTick /\ state = RUNNING) =>
           IF MovedHead = food
              THEN /\ Len(snake') = Len(snake) + 1
                   /\ score' = score + 1
                   /\ snake'[Len(snake')] = snake[Len(snake)]
              ELSE /\ Len(snake') = Len(snake)
                   /\ score' = score
                   /\ food' = food ]_vars

\* Food has been eaten by a snake of two segments that had moved on.
C3_Witness ==
    /\ state = RUNNING
    /\ Len(snake) = 3
    /\ score = 2
    /\ snake[3] # snake[2]

(***************************************************************************)
(* C4: on a logical tick in RUNNING the head ends on its cell before the   *)
(* tick plus the direction in force (the one this frame's keys leave), and *)
(* every other segment the snake had ends on the cell its predecessor had  *)
(* before the tick.                                                        *)
(***************************************************************************)
C4_ChainFollow ==
    [][ (OnTick /\ state = RUNNING) =>
           /\ snake'[1] = MovedHead
           /\ \A i \in 2 .. Len(snake) : snake'[i] = snake[i - 1] ]_vars

\* A snake of three segments lying around a corner.
C4_Witness ==
    /\ state = RUNNING
    /\ Len(snake) = 3
    /\ snake[1][1] # snake[3][1]
    /\ snake[1][2] # snake[3][2]

(***************************************************************************)
(* C5 as stated: after a logical tick on which the food is eaten, the new  *)
(* food is not on the head's cell, whatever rand.IntN returns.             *)
(***************************************************************************)
C5_NewFoodOffHead ==
    [][ (OnTick /\ state = RUNNING /\ MovedHead = food) =>
           food' # snake'[1] ]_vars

(***************************************************************************)
(* C6 as stated: a snake of two or more segments in RUNNING whose head is  *)
(* sent back onto the cell of its second segment (the direction opposite   *)
(* to the one it travels in) is CRASHED after that logical tick.           *)
(***************************************************************************)
C6_ReversalCrashes ==
    [][ ( /\ OnTick /\ state = RUNNING
          /\ Len(snake) >= 2
          /\ direction' = <<snake[2][1] - snake[1][1], snake[2][2] - snake[1][2]>> )
        => state' = CRASHED ]_vars

(***************************************************************************)
(* C6, amended: the reversal ends in CRASHED when the snake has three or   *)
(* more segments; with exactly two segments it does so only if the food is *)
(* on the second segment's cell (the segment appended there is hit), and   *)
(* otherwise the snake turns round and stays RUNNING.                      *)
(***************************************************************************)
C6_ReversalCrashesFromThree ==
    [][ ( /\ OnTick /\ state = RUNNING
          /\ Len(snake) >= 2
          /\ direction' = <<snake[2][1] - snake[1][1], snake[2][2] - snake[1][2]>> )
        => (state' = CRASHED <=> (Len(snake) >= 3 \/ food = snake[2])) ]_vars

\* Just crashed: the head has stepped back from the second segment's cell
\* onto the third's.
C6_Witness ==
    /\ state = CRASHED
    /\ crashTicks = 0
    /\ Len(snake) = 3
    /\ snake[1] = snake[3]
    /\ direction = <<snake[1][1] - snake[2][1], snake[1][2] - snake[2][2]>>
    /\ food # snake[1]

(***************************************************************************)
(* C7 as stated: a frame takes a logical tick exactly when adding 25 to    *)
(* the accumulator carries it past 255.                                    *)
(***************************************************************************)
C7_TickIffOverflow ==
    [][ TickTaken <=> color + 25 > 255 ]_vars

(***************************************************************************)
(* C7, amended: a frame takes a logical tick exactly when the accumulator  *)
(* plus 25 is at least 255; at 230 the tick is taken and the accumulator   *)
(* goes to 255 without wrapping.                                           *)
(***************************************************************************)
C7_TickIffThreshold ==
    [][ TickTaken <=> color + 25 >= 255 ]_vars

\* The tick out of CRASHED was taken at 230: the accumulator stands at 255.
C7_Witness ==
    color = 255 /\ state = CRASHING /\ crashTicks = 1

(***************************************************************************)
(* C8: a frame on which the accumulator plus the step is below the         *)
(* threshold leaves the snake, the food, the score and the phase alone,    *)
(* in every phase and for every key.                                       *)
(***************************************************************************)
C8_RenderOnlyFrame ==
    [][ color + speed < MaxUint8 =>
           UNCHANGED <<snake, food, score, state>> ]_vars

\* In CRASHED, frames after the crash and before the next tick: the score
\* still stands, though a key has been read.
C8_Witness ==
    /\ state = CRASHED
    /\ score = 2
    /\ color \in 3 * speed .. 4 * speed
    /\ direction = <<0, 1>>
    /\ snake[1] # Add(snake[2], direction)

(***************************************************************************)
(* C9 as stated: the stored direction changes only on frames that take a   *)
(* logical tick.                                                           *)
(***************************************************************************)
C9_DirectionOnlyAtTicks ==
    [][ direction' # direction => color + speed >= MaxUint8 ]_vars

(***************************************************************************)
(* C9, amended: the requested direction is stored on every frame, whether  *)
(* or not the frame takes a logical tick: after a frame with one arrow key *)
(* down the direction is that key's unit vector, and after a frame with no *)
(* arrow key down it is what it was.                                       *)
(***************************************************************************)
C9_DirectionEveryFrame ==
    [][ /\ Update({}) => direction' = direction
        /\ Update({"ArrowUp"}) => direction' = <<0, -1>>
        /\ Update({"ArrowRight"}) => direction' = <<1, 0>>
        /\ Update({"ArrowDown"}) => direction' = <<0, 1>>
        /\ Update({"ArrowLeft"}) => direction' = <<-1, 0>> ]_vars

\* After the first frame, which takes no tick: the snake has not moved and
\* the direction is already the key's.
C9_Witness ==
    /\ color = speed
    /\ snake = <<StartCell>>
    /\ score = 0
    /\ direction = <<0, -1>>

(***************************************************************************)
(* C10: the phase starts RUNNING; a logical tick takes it from RUNNING to  *)
(* RUNNING or CRASHED, from CRASHED to CRASHING (so it is CRASHED for one  *)
(* logical tick), from CRASHING to CRASHING or RUNNING, the last only when *)
(* the tick starts with one segment; a frame that takes no tick leaves it. *)
(***************************************************************************)
C10_Frame ==
    /\ color + speed >= MaxUint8 =>
          <<state, state'>> \in { <<RUNNING, RUNNING>>, <<RUNNING, CRASHED>>,
                                  <<CRASHED, CRASHING>>,
                                  <<CRASHING, CRASHING>>, <<CRASHING, RUNNING>> }
    /\ color + speed < MaxUint8 => state' = state
    /\ (state = CRASHING /\ state' = RUNNING) => Len(snake) = 1
    /\ (state = CRASHING /\ Len(snake) = 1 /\ color + speed >= MaxUint8) =>
          state' = RUNNING

C10_PhaseMachine ==
    /\ state = RUNNING
    /\ [][C10_Frame]_vars

\* Back in RUNNING after a whole crash cycle.
C10_Witness ==
    /\ state = RUNNING
    /\ crashLen >= 3
    /\ crashTicks > crashLen

(***************************************************************************)
(* C11 as stated: in every reachable state whose phase is CRASHED the      *)
(* score is 0.                                                             *)
(***************************************************************************)
C11_CrashedScoreZero ==
    state = CRASHED => score = 0

(***************************************************************************)
(* C11, amended: the score is reset on the logical tick that leaves        *)
(* CRASHED, not on the one that enters it: in every reachable state whose  *)
(* phase is CRASHED the score is still the positive score of the           *)
(* collision, and in every reachable state whose phase is CRASHING it is   *)
(* 0.                                                                      *)
(***************************************************************************)
C11_ScoreResetOnLeavingCrashed ==
    /\ state = CRASHED => score > 0
    /\ state = CRASHING => score = 0

\* Just crashed, the score of the collision still standing.
C11_Witness ==
    state = CRASHED /\ crashTicks = 0 /\ score = 2

(***************************************************************************)
(* C12: in every reachable state the snake has at least one segment and    *)
(* the direction is one of the four unit vectors.                          *)
(***************************************************************************)
C12_SnakeAndDirection ==
    /\ Len(snake) >= 1
    /\ direction \in { <<0, -1>>, <<1, 0>>, <<0, 1>>, <<-1, 0>> }

\* The retraction has run to its end and a key has turned the direction.
C12_Witness ==
    /\ state = RUNNING
    /\ crashLen >= 3
    /\ Len(snake) = 1
    /\ direction = <<0, -1>>

(***************************************************************************)
(* C13: with frames kept coming, from every state in CRASHED or CRASHING   *)
(* the phase becomes RUNNING again, whatever the keys, and logical ticks   *)
(* keep being taken for ever.  The phase being RUNNING, CRASHED or         *)
(* CRASHING, "CRASHED or CRASHING leads to RUNNING" says the same as       *)
(* "always, eventually RUNNING".                                           *)
(***************************************************************************)
C13_NoTerminalState ==
    /\ []<>(state = RUNNING)
    /\ []<><<TickTaken>>_vars

\* Play has resumed after a crash and the next frame takes a tick.
C13_Witness ==
    /\ state = RUNNING
    /\ crashLen > 0
    /\ crashTicks > 0
    /\ color + speed >= MaxUint8

(***************************************************************************)
(* C14: a logical tick in CRASHING with more than one segment removes the  *)
(* last segment and nothing else: the phase stays CRASHING and the other   *)
(* segments, the food and the score stay; with one segment it sets the     *)
(* phase to RUNNING and leaves snake, food and score.  No tick does both.  *)
(***************************************************************************)
C14_Tick ==
    (state = CRASHING /\ color + speed >= MaxUint8) =>
        /\ food' = food
        /\ score' = score
        /\ IF Len(snake) > 1
              THEN /\ state' = CRASHING
                   /\ Len(snake') = Len(snake) - 1
                   /\ \A i \in 1 .. Len(snake') : snake'[i] = snake[i]
              ELSE /\ state' = RUNNING
                   /\ snake' = snake
        /\ ~(Len(snake') < Len(snake) /\ state' = RUNNING)

C14_CrashingTick == [][C14_Tick]_vars

\* One segment of three has been retracted.
C14_Witness ==
    /\ state = CRASHING
    /\ crashLen = 3
    /\ Len(snake) = 2

(***************************************************************************)
(* C15: a logical tick in CRASHED sets the score to 0 and the phase to     *)
(* CRASHING and leaves the snake and the food as they are.                 *)
(***************************************************************************)
C15_CrashedTick ==
    [][ (state = CRASHED /\ color + speed >= MaxUint8) =>
           /\ score' = 0
           /\ state' = CRASHING
           /\ snake' = snake
           /\ food' = food ]_vars

\* The tick out of CRASHED has been taken and the snake is whole.
C15_Witness ==
    /\ state = CRASHING
    /\ crashTicks = 1
    /\ Len(snake) = crashLen
    /\ score = 0

(***************************************************************************)
(* C16: in every reachable state whose phase is RUNNING or CRASHED the     *)
(* score is the snake's length minus 1, and in every reachable state whose *)
(* phase is CRASHING the score is 0.                                       *)
(***************************************************************************)
C16_ScoreAndLength ==
    /\ state \in {RUNNING, CRASHED} => score = Len(snake) - 1
    /\ state = CRASHING => score = 0

\* One food eaten and play going on.
C16_Witness ==
    /\ state = RUNNING
    /\ Len(snake) = 2
    /\ score = 1

(***************************************************************************)
(* C17: in every reachable state whose phase is RUNNING no two segments of *)
(* the snake are on the same cell.                                         *)
(***************************************************************************)
C17_RunningSnakeIsSimple ==
    state = RUNNING =>
        \A i, j \in 1 .. Len(snake) : i # j => snake[i] # snake[j]

\* Three segments on three cells.
C17_Witness ==
    /\ state = RUNNING
    /\ Len(snake) = 3
    /\ Cardinality({snake[i] : i \in 1 .. 3}) = 3

(***************************************************************************)
(* C18: in every reachable state, whatever the phase, any two consecutive  *)
(* segments are at Manhattan distance 1.                                   *)
(***************************************************************************)
Abs(n) == IF n < 0 THEN 0 - n ELSE n

Manhattan(p, q) == Abs(p[1] - q[1]) + Abs(p[2] - q[2])

C18_BodyIsAChain ==
    \A i \in 1 .. Len(snake) - 1 : Manhattan(snake[i], snake[i + 1]) = 1

\* A crashed snake in retraction, its head on its tail's cell.
C18_Witness ==
    /\ state = CRASHING
    /\ Len(snake) = 3
    /\ snake[1] = snake[3]

(***************************************************************************)
(* C19: every reachable state whose phase is CRASHED has a snake of three  *)
(* or more segments: a tick that leaves the snake with one or two segments *)
(* never ends in CRASHED.                                                  *)
(***************************************************************************)
C19_CrashNeedsThree ==
    state = CRASHED => Len(snake) >= 3

\* Crashed with exactly three segments.
C19_Witness ==
    /\ state = CRASHED
    /\ crashLen = 3
    /\ Len(snake) = crashLen

(***************************************************************************)
(* C20: at most 10 frames in a row take no logical tick, so of any 11      *)
(* consecutive frames one at least takes a tick.                           *)
(***************************************************************************)
C20_TickWithinElevenFrames ==
    idle <= 10

\* Ten frames without a tick: the accumulator has gone from 0 to 250.
C20_Witness ==
    idle = 10 /\ color = 10 * speed

====
